---- MODULE Spec2Model ----
(***************************************************************************)
(* Model of the Firecrawl / Airbnb MCP agents:                             *)
(*   src/mcp_client.py   ToolUsageCallbackHandler, run_app,                *)
(*                       interactive_mode, __main__                        *)
(*   src/mcp_server.py   FirecrawlClient and the three registered tools    *)
(*   src/MCP-Servers/airbnb-mcp-agent/main.py   main (the Airbnb REPL)     *)
(*                                                                         *)
(* The specifications share the variables below; each one moves only the   *)
(* variables of its own component:                                         *)
(*   SpecTracker   the tool usage callback handler of one query            *)
(*   SpecHost      the Tool Host operations of mcp_server.py               *)
(*   SpecAgent     one run of either client script                         *)
(*   SpecAirbnb    one run of the Airbnb script                            *)
(***************************************************************************)
EXTENDS Integers, Sequences, FiniteSets

VARIABLES
    \* ---- ToolUsageCallbackHandler (mcp_client.py) ----
    tool_usage,     \* self.tool_usage: the list of {"tool", "input"} dicts
    t_stdout,       \* what the handler's last call printed
    t_summary,      \* the value the last get_tool_usage_summary() returned
    t_calls,        \* observed: the arguments of every on_tool_start so far
    t_lastOutput,   \* observed: the argument of the last on_tool_end
    t_summaryAt,    \* observed: Len(t_calls) when t_summary was returned
    \* ---- Tool Host (mcp_server.py) ----
    h_pc,           \* whether the call has returned
    h_request,      \* the operation called: its name and arguments
    h_outcome,      \* what the external scrape_url does if it is called
    h_result,       \* the value the operation returned
    h_scrapes,      \* the scrape_url calls the operation issued, in order
    h_raised,       \* the exception that left the operation, if any
    \* ---- the client scripts (mcp_client.py, airbnb main.py) ----
    script,         \* which script this process runs
    args,           \* mcp_client.py: the parsed --query and --interactive
    pc,             \* the statement the script is at
    pipe,           \* the stdio_client context: the subprocess pipe
    session,        \* the ClientSession context
    exc,            \* the exception in flight, if any
    user_input,     \* the REPL's user_input
    user_question,  \* run_app's parameter
    agent_response, \* what agent.ainvoke returned
    ret,            \* what run_app returned
    stdout,         \* what the script last printed
    messages,       \* airbnb main: the messages list
    entered,        \* observed: every line typed at the airbnb prompt
    handed,         \* observed: the messages given to the last agent.ainvoke
    failed          \* observed: the exception this round raised, and where

trackerVars == <<tool_usage, t_stdout, t_summary, t_calls, t_lastOutput, t_summaryAt>>
hostVars    == <<h_pc, h_request, h_outcome, h_result, h_scrapes, h_raised>>
agentVars   == <<script, args, pc, pipe, session, exc, user_input, user_question,
                 agent_response, ret, stdout, messages, entered, handed, failed>>
vars        == <<trackerVars, hostVars, agentVars>>

(***************************************************************************)
(* Python strings.  A str is held run-length encoded: a sequence of        *)
(* <<character, count>> runs with no empty run and no two adjacent runs of *)
(* the same character, so that equal strings are equal values and the      *)
(* slices of the code ([:150], [:175000]) keep their real lengths.         *)
(***************************************************************************)
RECURSIVE Norm(_)
Norm(runs) ==
    IF runs = <<>> THEN <<>>
    ELSE LET rest == Norm(Tail(runs)) IN
         IF runs[1][2] = 0 THEN rest
         ELSE IF rest # <<>> /\ rest[1][1] = runs[1][1]
              THEN <<<<runs[1][1], runs[1][2] + rest[1][2]>>>> \o Tail(rest)
              ELSE <<runs[1]>> \o rest

\* a str literal, one character per element
Lit(chars) == Norm([i \in DOMAIN chars |-> <<chars[i], 1>>])

RECURSIVE StrLen(_)
\* len(s)
StrLen(s) == IF s = <<>> THEN 0 ELSE s[1][2] + StrLen(Tail(s))

RECURSIVE Slice(_, _)
\* s[:n]
Slice(s, n) ==
    IF s = <<>> \/ n <= 0 THEN <<>>
    ELSE IF s[1][2] <= n THEN <<s[1]>> \o Slice(Tail(s), n - s[1][2])
         ELSE <<<<s[1][1], n>>>>

\* a + b
Concat(a, b) == Norm(a \o b)

\* the cased characters of the model's alphabet
UpperCase == {"A", "B", "E", "Q"}
LowerOf(c) ==
    CASE c = "A" -> "a" [] c = "B" -> "b" [] c = "E" -> "e" [] c = "Q" -> "q"
      [] OTHER -> c

\* s.lower()
Lower(s) == Norm([i \in DOMAIN s |-> <<LowerOf(s[i][1]), s[i][2]>>])

\* an exception, or none
NoExc == [raised |-> FALSE, type |-> "", message |-> ""]
Exc(type, message) == [raised |-> TRUE, type |-> type, message |-> message]

IsPrefix(a, b) == Len(a) <= Len(b) /\ SubSeq(b, 1, Len(a)) = a

(***************************************************************************)
(* ToolUsageCallbackHandler                                                *)
(***************************************************************************)
\* the most on_tool_start calls one handler sees
MaxCalls == 3

\* output[:150] and len(str(output)) > 150
DisplayLimit == 150

ToolNames  == {"extract_company_info"}
ToolInputs == {"https://a.example", "https://b.example"}

\* the `serialized` dict of a tool: with a "name", or without one
Serialized == {[name |-> n] : n \in ToolNames} \cup {[description |-> "no name"]}

\* tool outputs: lengths on both sides of the display threshold, ending in
\* a second character so that the end of a cut output can be told from its start
Outputs ==
    {Norm(<<<<"a", n>>, <<"b", m>>>>) :
        n \in {1, DisplayLimit - 1, DisplayLimit, DisplayLimit + 1},
        m \in {0, 2}}

NoPrint == [kind |-> "none"]

\* serialized.get("name", "unknown_tool")
ToolNameOf(serialized) ==
    IF "name" \in DOMAIN serialized THEN serialized.name ELSE "unknown_tool"

\* self.tool_usage.append({"tool": tool_name, "input": input_str})
AppendUsage(usage, tool_name, input_str) ==
    Append(usage, [tool |-> tool_name, input |-> input_str])

on_tool_start(serialized, input_str) ==
    /\ Len(t_calls) < MaxCalls
    /\ LET tool_name == ToolNameOf(serialized) IN
        /\ t_stdout' = [kind |-> "using", tool |-> tool_name, input |-> input_str]
        /\ tool_usage' = AppendUsage(tool_usage, tool_name, input_str)
    /\ t_calls' = Append(t_calls, [serialized |-> serialized, input |-> input_str])
    /\ UNCHANGED <<t_summary, t_lastOutput, t_summaryAt>>
    /\ UNCHANGED <<hostVars, agentVars>>

\* the cut taken at the limit itself (>= for >)
RenderOutput_AtLimit(output) ==
    IF StrLen(output) >= DisplayLimit
    THEN Concat(Slice(output, DisplayLimit), Lit(<<".", ".", ".">>))
    ELSE output

\* the line on_tool_end prints for a str output
RenderOutput(output) ==
    IF StrLen(output) > DisplayLimit
    THEN Concat(Slice(output, DisplayLimit), Lit(<<".", ".", ".">>))
    ELSE output

\* what on_tool_end does to self.tool_usage: nothing
UsageAfterEnd(usage, output) == usage

on_tool_end(output) ==
    /\ t_stdout' = [kind |-> "output", text |-> RenderOutput(output)]
    /\ tool_usage' = UsageAfterEnd(tool_usage, output)
    /\ t_lastOutput' = output
    /\ UNCHANGED <<t_summary, t_calls, t_summaryAt>>
    /\ UNCHANGED <<hostVars, agentVars>>

\* the listing numbered as a bare enumerate() numbers it, from 0
SummaryOf_FromZero(usage) ==
    IF usage = <<>>
    THEN [kind |-> "sentinel", text |-> "No tools were used.", lines |-> <<>>]
    ELSE [kind |-> "listing", text |-> "Tools Used:",
          lines |-> [i \in 1..Len(usage) |->
                        [ordinal |-> i - 1,
                         tool |-> usage[i].tool, input |-> usage[i].input]]]

\* the summary string, held as its header and its numbered lines
SummaryOf(usage) ==
    IF usage = <<>>
    THEN [kind |-> "sentinel", text |-> "No tools were used.", lines |-> <<>>]
    ELSE [kind |-> "listing", text |-> "Tools Used:",
          lines |-> [i \in 1..Len(usage) |->
                        [ordinal |-> i,
                         tool |-> usage[i].tool, input |-> usage[i].input]]]

get_tool_usage_summary ==
    /\ t_summary' = SummaryOf(tool_usage)
    /\ t_summaryAt' = Len(t_calls)
    /\ UNCHANGED <<tool_usage, t_stdout, t_calls, t_lastOutput>>
    /\ UNCHANGED <<hostVars, agentVars>>

InitTrackerVars ==
    /\ tool_usage = <<>>
    /\ t_stdout = NoPrint
    /\ t_summary = [kind |-> "none", text |-> "", lines |-> <<>>]
    /\ t_calls = <<>>
    /\ t_lastOutput = <<>>
    /\ t_summaryAt = 0

NextTracker ==
    \/ \E s \in Serialized, i \in ToolInputs : on_tool_start(s, i)
    \/ \E o \in Outputs : on_tool_end(o)
    \/ get_tool_usage_summary

(***************************************************************************)
(* Tool Host: FirecrawlClient and the tools of setup_mcp_server            *)
(***************************************************************************)
\* the longest URL tried
MaxUrlLen == 5

UrlChars == {"h", "t", "p"}

CharSeqs(n) == UNION {[1..k -> UrlChars] : k \in 0..n}

Urls == {Lit(cs) : cs \in CharSeqs(MaxUrlLen)}

\* only the first character compared
StartsWith_FirstChar(url, prefix) == Slice(url, 1) = Slice(prefix, 1)

\* url.startswith(prefix)
StartsWith(url, prefix) == Slice(url, StrLen(prefix)) = prefix

Http == Lit(<<"h", "t", "t", "p">>)

\* `not url`
IsEmptyStr(url) == url = <<>>

SchemaTypes == {"company", "documentation", "general", "anything else"}

\* the schema switch of extract_structured_data
SchemaFor(schema_type) ==
    IF schema_type = "company" THEN "CompanyInfoSchema"
    ELSE IF schema_type = "documentation" THEN "DocumentationSchema"
    ELSE "GeneralContentSchema"

\* the values a response holds under a key: falsy ("" or {}) or not
ResponseKeys == {"json", "markdown"}
Val(k, t) == [truthy |-> t, of |-> k]

\* the dicts scrape_url may return: each key absent, falsy or filled
Responses ==
    {[k \in keys |-> Val(k, tf[k])] :
        keys \in SUBSET ResponseKeys, tf \in [ResponseKeys -> BOOLEAN]}

ErrorMessages == {"timeout", "402 payment required"}

\* what the external scrape_url does: returns a dict, returns None, or raises
Outcomes ==
    {[kind |-> "response", response |-> r, message |-> ""] : r \in Responses}
    \cup {[kind |-> "None", response |-> <<>>, message |-> ""]}
    \cup {[kind |-> "raise", response |-> <<>>, message |-> m] : m \in ErrorMessages}

NotCalled == [kind |-> "not called", response |-> <<>>, message |-> ""]

\* the key's presence taken for its truth (`k in response`)
GetTruthy_Present(response, k) == k \in DOMAIN response

\* bool(response.get(k))
GetTruthy(response, k) == k \in DOMAIN response /\ response[k].truthy

ErrorResult(text) == [error |-> text]

\* how a call ends: the value it returns, the scrape_url calls it made, and
\* the exception that leaves it, if any
Returned(result, scrapes) == [result |-> result, scrapes |-> scrapes, raised |-> NoExc]

\* no except clause: the exception leaves the operation
Caught_Propagates(prefix, e, scrapes) ==
    [result |-> [none |-> TRUE], scrapes |-> scrapes, raised |-> e]

\* except Exception as e: return {"error": f"<prefix>{str(e)}"}
Caught(prefix, e, scrapes) == Returned(ErrorResult(<<prefix, e.message>>), scrapes)

\* what scrape_url raises, when it does
Raised(outcome) == Exc("Exception", outcome.message)

\* None.get(...)
NoneHasNoGet == Exc("AttributeError", "'NoneType' object has no attribute 'get'")

\* the request extract_structured_data sends
ExtractRequest(url, schema_type) ==
    [url |-> url, formats |-> <<"json", "markdown">>,
     jsonOptions |-> SchemaFor(schema_type)]

\* the request get_website_content sends
ContentRequest(url) ==
    [url |-> url, formats |-> <<"markdown">>, jsonOptions |-> "absent"]

\* FirecrawlClient.extract_structured_data, given what scrape_url will do
extract_structured_data(url, schema_type, outcome) ==
    IF ~StartsWith(url, Http)
    THEN Returned(ErrorResult(<<"Invalid URL">>), <<>>)
    ELSE LET request == ExtractRequest(url, schema_type) IN
        IF outcome.kind = "raise"
        THEN Caught("Extraction failed: ", Raised(outcome), <<request>>)
        ELSE IF outcome.kind = "None"
        THEN Caught("Extraction failed: ", NoneHasNoGet, <<request>>)
        ELSE IF GetTruthy(outcome.response, "json")
        THEN Returned(outcome.response["json"], <<request>>)
        ELSE IF GetTruthy(outcome.response, "markdown")
        THEN Returned([raw_text |-> outcome.response["markdown"],
                       note |-> "Structured data not found. Returned raw markdown content."],
                      <<request>>)
        ELSE Returned(ErrorResult(<<"No data extracted from the page.">>), <<request>>)

\* FirecrawlClient.get_website_content, given what scrape_url will do
get_website_content(url, outcome) ==
    IF IsEmptyStr(url) \/ ~StartsWith(url, Http)
    THEN Returned(ErrorResult(<<"Invalid URL. Must start with http:// or https://">>),
                  <<>>)
    ELSE LET request == ContentRequest(url) IN
        IF outcome.kind = "raise"
        THEN Caught("Error fetching content: ", Raised(outcome), <<request>>)
        ELSE IF outcome.kind = "response" /\ GetTruthy(outcome.response, "markdown")
        THEN Returned([content |-> outcome.response["markdown"]], <<request>>)
        ELSE Returned(ErrorResult(<<"No content could be extracted">>), <<request>>)

\* the tool extract_documentation
extract_documentation(url, outcome) ==
    IF IsEmptyStr(url)
    THEN Returned(ErrorResult(<<"URL cannot be empty">>), <<>>)
    ELSE extract_structured_data(url, "documentation", outcome)

\* the tool summarize_webpage
summarize_webpage(url, outcome) ==
    IF IsEmptyStr(url)
    THEN Returned(ErrorResult(<<"URL cannot be empty">>), <<>>)
    ELSE get_website_content(url, outcome)

\* the tool extract_company_info
extract_company_info(url, outcome) ==
    IF IsEmptyStr(url)
    THEN Returned(ErrorResult(<<"URL cannot be empty">>), <<>>)
    ELSE extract_structured_data(url, "company", outcome)

HostOps ==
    {"extract_structured_data", "get_website_content", "extract_documentation",
     "summarize_webpage", "extract_company_info"}

\* the calls a Host may receive; only extract_structured_data takes a schema tag
Requests ==
    {[op |-> "extract_structured_data", url |-> u, schema_type |-> st] :
        u \in Urls, st \in SchemaTypes}
    \cup {[op |-> op, url |-> u, schema_type |-> ""] :
        op \in HostOps \ {"extract_structured_data"}, u \in Urls}

\* one call of a Host operation, start to return
HostCall(op, returned) ==
    /\ h_pc = "called"
    /\ h_request.op = op
    /\ h_pc' = "returned"
    /\ h_result' = returned.result
    /\ h_scrapes' = returned.scrapes
    /\ h_raised' = returned.raised
    /\ UNCHANGED <<h_request, h_outcome>>
    /\ UNCHANGED <<trackerVars, agentVars>>

CallExtractStructuredData ==
    HostCall("extract_structured_data",
             extract_structured_data(h_request.url, h_request.schema_type, h_outcome))

CallGetWebsiteContent ==
    HostCall("get_website_content", get_website_content(h_request.url, h_outcome))

CallExtractDocumentation ==
    HostCall("extract_documentation", extract_documentation(h_request.url, h_outcome))

CallSummarizeWebpage ==
    HostCall("summarize_webpage", summarize_webpage(h_request.url, h_outcome))

CallExtractCompanyInfo ==
    HostCall("extract_company_info", extract_company_info(h_request.url, h_outcome))

\* no call is made
InitHostVars ==
    /\ h_pc = "off"
    /\ h_request = [op |-> "none", url |-> <<>>, schema_type |-> ""]
    /\ h_outcome = NotCalled
    /\ h_result = [none |-> TRUE]
    /\ h_scrapes = <<>>
    /\ h_raised = NoExc

\* one call arrives; the Host keeps nothing from one call to the next
InitHostCall ==
    /\ h_pc = "called"
    /\ h_request \in Requests
    /\ h_outcome \in Outcomes
    /\ h_result = [none |-> TRUE]
    /\ h_scrapes = <<>>
    /\ h_raised = NoExc

NextHost ==
    \/ CallExtractStructuredData
    \/ CallGetWebsiteContent
    \/ CallExtractDocumentation
    \/ CallSummarizeWebpage
    \/ CallExtractCompanyInfo

(***************************************************************************)
(* What the two client scripts share: exceptions, the two nested           *)
(* `async with` blocks, and the replies of the reasoning engine            *)
(***************************************************************************)
\* what a failing await (spawn, handshake, catalog, agent) may raise
AwaitErrors == {Exc("Exception", "connection closed"), Exc("Exception", "rate limit")}

\* input() at end of input
EOFError == Exc("EOFError", "EOF when reading a line")

NoFailure == [raised |-> FALSE, at |-> "", message |-> ""]
Failure(at, e) == [raised |-> TRUE, at |-> at, message |-> e.message]

\* the messages of a reply: objects with a `content` attribute, or without
AIMessage(content) == [has_content |-> TRUE, content |-> content]
Opaque(text) == [has_content |-> FALSE, content |-> text]

MessageLists ==
    { <<>>,
      <<AIMessage("answer")>>,
      <<AIMessage("thought"), AIMessage("answer")>>,
      <<AIMessage("answer"), Opaque("raw")>> }

\* what agent.ainvoke may return: a dict with a "messages" list, or without
AgentResponses ==
    {[messages |-> ms] : ms \in MessageLists} \cup {[output |-> "no message list"]}

NoResponse == [none |-> TRUE]
NoReturn == [none |-> TRUE]
Silent == [kind |-> "none"]

\* str(x)
StrOf(x) == [str_of |-> x]

\* the contexts entered by hand and never exited when the body raises
RaiseInSession_NoExit(at, e) ==
    /\ exc' = e
    /\ failed' = Failure(at, e)
    /\ pc' = IF script = "mcp_client" THEN "except" ELSE "crashed"

\* an exception raised by a statement inside both `async with` blocks: the
\* blocks are left innermost first, each running its __aexit__
RaiseInSession(at, e) ==
    /\ exc' = e
    /\ failed' = Failure(at, e)
    /\ pc' = "session_exit"

\* ClientSession.__aexit__
SessionExit ==
    /\ pc = "session_exit"
    /\ session' = "closed"
    /\ pc' = "stdio_exit"
    /\ UNCHANGED <<script, args, pipe, exc, user_input, user_question,
                   agent_response, ret, stdout, messages, entered, handed, failed>>
    /\ UNCHANGED <<trackerVars, hostVars>>

(***************************************************************************)
(* mcp_client.py: __main__, interactive_mode, run_app                      *)
(***************************************************************************)
Exit  == Lit(<<"e", "x", "i", "t">>)
Quit  == Lit(<<"q", "u", "i", "t">>)
Q     == Lit(<<"q">>)
Bye   == Lit(<<"b", "y", "e">>)

\* what is typed at the prompt of interactive_mode
ClientInputs ==
    { Exit, Quit, Q, Bye,
      Lit(<<"E", "x", "i", "t">>), Lit(<<"Q", "U", "I", "T">>),
      Lit(<<"a", "b">>), <<>> }

\* ('exit', 'quit')
ClientExitWords == {Exit, Quit}

\* the command lines: --query with a value, or without; --interactive or not
CommandLines ==
    {[has_query |-> hq, query |-> q, interactive |-> i] :
        hq \in BOOLEAN, q \in {<<>>, Lit(<<"a", "b">>), Quit}, i \in BOOLEAN}

\* if args.query: ... elif args.interactive: ... else: ...
Client_Main ==
    /\ script = "mcp_client"
    /\ pc = "main"
    /\ IF args.has_query /\ args.query # <<>>
       THEN /\ user_question' = args.query
            /\ pc' = "stdio_enter"
       ELSE /\ pc' = IF args.interactive THEN "prompt" ELSE "exit"
            /\ UNCHANGED user_question
    /\ failed' = NoFailure
    /\ UNCHANGED <<script, args, pipe, session, exc, user_input,
                   agent_response, ret, stdout, messages, entered, handed>>
    /\ UNCHANGED <<trackerVars, hostVars>>

\* user_input.lower() in ('exit', 'quit')
ClientIsExit(input) == Lower(input) \in ClientExitWords

\* one pass of the loop of interactive_mode, up to the call of run_app
Client_Prompt ==
    /\ script = "mcp_client"
    /\ pc = "prompt"
    /\ \/ \E typed \in ClientInputs :
            /\ user_input' = typed
            /\ IF ClientIsExit(typed)
               THEN /\ stdout' = [kind |-> "goodbye", text |-> "Goodbye!"]
                    /\ pc' = "exit"
                    /\ UNCHANGED user_question
               ELSE /\ user_question' = typed
                    /\ pc' = "stdio_enter"
                    /\ UNCHANGED stdout
            /\ failed' = NoFailure
            /\ UNCHANGED exc
       \/ \* input() raises EOFError: nothing in interactive_mode catches it
          /\ exc' = EOFError
          /\ failed' = Failure("input", EOFError)
          /\ pc' = "crashed"
          /\ UNCHANGED <<user_input, user_question, stdout>>
    /\ UNCHANGED <<script, args, pipe, session, agent_response, ret,
                   messages, entered, handed>>
    /\ UNCHANGED <<trackerVars, hostVars>>

\* async with stdio_client(server_params) as (read, write)
RunApp_StdioEnter ==
    /\ script = "mcp_client"
    /\ pc = "stdio_enter"
    /\ \/ /\ pipe' = "open"
          /\ pc' = "session_enter"
          /\ UNCHANGED <<exc, failed>>
       \/ \E e \in AwaitErrors :
            /\ exc' = e
            /\ failed' = Failure("stdio_enter", e)
            /\ pc' = "except"
            /\ UNCHANGED pipe
    /\ agent_response' = NoResponse
    /\ ret' = NoReturn
    /\ UNCHANGED <<script, args, session, user_input, user_question,
                   stdout, messages, entered, handed>>
    /\ UNCHANGED <<trackerVars, hostVars>>

\* async with ClientSession(read, write) as session
RunApp_SessionEnter ==
    /\ script = "mcp_client"
    /\ pc = "session_enter"
    /\ \/ /\ session' = "open"
          /\ pc' = "initialize"
          /\ UNCHANGED <<exc, failed>>
       \/ \E e \in AwaitErrors :
            /\ exc' = e
            /\ failed' = Failure("session_enter", e)
            /\ pc' = "stdio_exit"
            /\ UNCHANGED session
    /\ UNCHANGED <<script, args, pipe, user_input, user_question,
                   agent_response, ret, stdout, messages, entered, handed>>
    /\ UNCHANGED <<trackerVars, hostVars>>

\* await session.initialize()
RunApp_Initialize ==
    /\ script = "mcp_client"
    /\ pc = "initialize"
    /\ \/ /\ pc' = "load_tools"
          /\ UNCHANGED <<exc, failed>>
       \/ \E e \in AwaitErrors : RaiseInSession("initialize", e)
    /\ UNCHANGED <<script, args, pipe, session, user_input, user_question,
                   agent_response, ret, stdout, messages, entered, handed>>
    /\ UNCHANGED <<trackerVars, hostVars>>

\* tools = await load_mcp_tools(session); the listing; create_react_agent
RunApp_LoadTools ==
    /\ script = "mcp_client"
    /\ pc = "load_tools"
    /\ \/ /\ stdout' = [kind |-> "tools", text |-> "Available Tools:"]
          /\ pc' = "ainvoke"
          /\ UNCHANGED <<exc, failed>>
       \/ \E e \in AwaitErrors :
            /\ RaiseInSession("load_tools", e)
            /\ UNCHANGED stdout
    /\ UNCHANGED <<script, args, pipe, session, user_input, user_question,
                   agent_response, ret, messages, entered, handed>>
    /\ UNCHANGED <<trackerVars, hostVars>>

\* agent_response = await agent.ainvoke({"messages": [user message]}, ...)
RunApp_Invoke ==
    /\ script = "mcp_client"
    /\ pc = "ainvoke"
    /\ handed' = <<[role |-> "user", content |-> user_question]>>
    /\ \/ \E r \in AgentResponses :
            /\ agent_response' = r
            /\ pc' = "format"
            /\ UNCHANGED <<exc, failed>>
       \/ \E e \in AwaitErrors :
            /\ RaiseInSession("ainvoke", e)
            /\ UNCHANGED agent_response
    /\ UNCHANGED <<script, args, pipe, session, user_input, user_question,
                   ret, stdout, messages, entered>>
    /\ UNCHANGED <<trackerVars, hostVars>>

\* formatted_response: the three tiers of run_app
FormattedResponse(response) ==
    IF "messages" \in DOMAIN response
    THEN LET last_message == response.messages[Len(response.messages)] IN
         IF last_message.has_content
         THEN [kind |-> "final", text |-> last_message.content]
         ELSE [kind |-> "final", text |-> StrOf(last_message)]
    ELSE [kind |-> "final", text |-> StrOf(response)]

\* agent_response["messages"][-1] of an empty list raises IndexError
LastMessageRaises(response) ==
    "messages" \in DOMAIN response /\ response.messages = <<>>

\* the formatting, the two prints and `return agent_response`
RunApp_Format ==
    /\ script = "mcp_client"
    /\ pc = "format"
    /\ IF LastMessageRaises(agent_response)
       THEN /\ RaiseInSession("format", Exc("IndexError", "list index out of range"))
            /\ UNCHANGED <<stdout, ret>>
       ELSE /\ stdout' = FormattedResponse(agent_response)
            /\ ret' = agent_response
            /\ pc' = "session_exit"
            /\ UNCHANGED <<exc, failed>>
    /\ UNCHANGED <<script, args, pipe, session, user_input, user_question,
                   agent_response, messages, entered, handed>>
    /\ UNCHANGED <<trackerVars, hostVars>>

\* stdio_client's __aexit__, then the except clause if an exception is in flight
RunApp_StdioExit ==
    /\ script = "mcp_client"
    /\ pc = "stdio_exit"
    /\ pipe' = "closed"
    /\ pc' = IF exc.raised THEN "except" ELSE "return"
    /\ UNCHANGED <<script, args, session, exc, user_input, user_question,
                   agent_response, ret, stdout, messages, entered, handed, failed>>
    /\ UNCHANGED <<trackerVars, hostVars>>

\* the except clause logging and raising again
RunApp_Except_Reraise ==
    /\ script = "mcp_client"
    /\ pc = "except"
    /\ pc' = "crashed"
    /\ UNCHANGED <<script, args, pipe, session, exc, user_input, user_question,
                   agent_response, ret, stdout, messages, entered, handed, failed>>
    /\ UNCHANGED <<trackerVars, hostVars>>

\* except Exception as e: logger.error(...); return {"error": str(e)}
RunApp_Except ==
    /\ script = "mcp_client"
    /\ pc = "except"
    /\ ret' = [error |-> exc.message]
    /\ exc' = NoExc
    /\ pc' = "return"
    /\ UNCHANGED <<script, args, pipe, session, user_input, user_question,
                   agent_response, stdout, messages, entered, handed, failed>>
    /\ UNCHANGED <<trackerVars, hostVars>>

\* run_app has returned: back in the loop of interactive_mode, or asyncio.run ends
RunApp_Return ==
    /\ script = "mcp_client"
    /\ pc = "return"
    /\ pc' = IF args.has_query /\ args.query # <<>> THEN "exit" ELSE "prompt"
    /\ UNCHANGED <<script, args, pipe, session, exc, user_input, user_question,
                   agent_response, ret, stdout, messages, entered, handed, failed>>
    /\ UNCHANGED <<trackerVars, hostVars>>

\* ClientSession's __aexit__ in run_app
RunApp_SessionExit == script = "mcp_client" /\ SessionExit

NextClient ==
    \/ Client_Main
    \/ Client_Prompt
    \/ RunApp_StdioEnter
    \/ RunApp_SessionEnter
    \/ RunApp_Initialize
    \/ RunApp_LoadTools
    \/ RunApp_Invoke
    \/ RunApp_Format
    \/ RunApp_SessionExit
    \/ RunApp_StdioExit
    \/ RunApp_Except
    \/ RunApp_Return

(***************************************************************************)
(* airbnb-mcp-agent/main.py: main                                          *)
(***************************************************************************)
\* the most lines typed at the Airbnb prompt
MaxTurns == 3

\* user_input[:175000]
ContentLimit == 175000

\* Python values that carry their type: a str never equals a list
PyStr(s) == [type |-> "str", value |-> s]
PyList(items) == [type |-> "list", value |-> items]

\* a == b
PyEq(a, b) == a.type = b.type /\ a.value = b.value

\* ["q", "bye", "quit"]
AirbnbExitList == PyList(<<Q, Bye, Quit>>)

\* user_input == ["q", "bye", "quit"]
AirbnbIsExit(input) == PyEq(PyStr(input), AirbnbExitList)

\* what is typed at the Airbnb prompt: the keywords, mixed case, and lines
\* on both sides of the content limit
AirbnbInputs ==
    { Q, Bye, Quit, Exit,
      Lit(<<"Q", "u", "i", "t">>),
      <<<<"A", ContentLimit + 1>>>>,
      <<<<"a", ContentLimit - 1>>, <<"B", 2>>>> }

SystemMessage ==
    [role |-> "system",
     content |-> <<<<"You are a helpful assistant that can scrape websites, ...", 1>>>>]

\* {"role": "user", "content": user_input[:175000]}
UserMessage(input) == [role |-> "user", content |-> Slice(input, ContentLimit)]

\* async with stdio_client(server_params) as (read, write); an exception that
\* leaves main is re-raised by asyncio.run and ends the process
Main_StdioEnter ==
    /\ script = "airbnb"
    /\ pc = "stdio_enter"
    /\ \/ /\ pipe' = "open"
          /\ pc' = "session_enter"
          /\ UNCHANGED <<exc, failed>>
       \/ \E e \in AwaitErrors :
            /\ exc' = e
            /\ failed' = Failure("stdio_enter", e)
            /\ pc' = "crashed"
            /\ UNCHANGED pipe
    /\ UNCHANGED <<script, args, session, user_input, user_question,
                   agent_response, ret, stdout, messages, entered, handed>>
    /\ UNCHANGED <<trackerVars, hostVars>>

\* async with ClientSession(read, write) as session
Main_SessionEnter ==
    /\ script = "airbnb"
    /\ pc = "session_enter"
    /\ \/ /\ session' = "open"
          /\ pc' = "initialize"
          /\ UNCHANGED <<exc, failed>>
       \/ \E e \in AwaitErrors :
            /\ exc' = e
            /\ failed' = Failure("session_enter", e)
            /\ pc' = "stdio_exit"
            /\ UNCHANGED session
    /\ UNCHANGED <<script, args, pipe, user_input, user_question,
                   agent_response, ret, stdout, messages, entered, handed>>
    /\ UNCHANGED <<trackerVars, hostVars>>

\* await session.initialize()
Main_Initialize ==
    /\ script = "airbnb"
    /\ pc = "initialize"
    /\ \/ /\ pc' = "load_tools"
          /\ UNCHANGED <<exc, failed>>
       \/ \E e \in AwaitErrors : RaiseInSession("initialize", e)
    /\ UNCHANGED <<script, args, pipe, session, user_input, user_question,
                   agent_response, ret, stdout, messages, entered, handed>>
    /\ UNCHANGED <<trackerVars, hostVars>>

\* load_mcp_tools, create_react_agent, messages = [system message], the banner
Main_LoadTools ==
    /\ script = "airbnb"
    /\ pc = "load_tools"
    /\ \/ /\ messages' = <<SystemMessage>>
          /\ stdout' = [kind |-> "welcome", text |-> "Welcome to Airbnb AI Search!"]
          /\ pc' = "prompt"
          /\ UNCHANGED <<exc, failed>>
       \/ \E e \in AwaitErrors :
            /\ RaiseInSession("load_tools", e)
            /\ UNCHANGED <<messages, stdout>>
    /\ UNCHANGED <<script, args, pipe, session, user_input, user_question,
                   agent_response, ret, entered, handed>>
    /\ UNCHANGED <<trackerVars, hostVars>>

\* messages.append({"role": "user", "content": user_input[:175000]})
AppendUser(msgs, input) == Append(msgs, UserMessage(input))

\* the top of the loop: input().lower(), the exit test, messages.append
Main_Prompt ==
    /\ script = "airbnb"
    /\ pc = "prompt"
    /\ Len(entered) < MaxTurns
    /\ \/ \E typed \in AirbnbInputs :
            /\ entered' = Append(entered, typed)
            /\ user_input' = Lower(typed)
            /\ IF AirbnbIsExit(user_input')
               THEN /\ stdout' = [kind |-> "goodbye", text |-> "Goodbye"]
                    /\ pc' = "session_exit"
                    /\ UNCHANGED messages
               ELSE /\ messages' = AppendUser(messages, user_input')
                    /\ pc' = "ainvoke"
                    /\ UNCHANGED stdout
            /\ failed' = NoFailure
            /\ UNCHANGED exc
       \/ \* input() raises EOFError: outside the try, it leaves both blocks
          /\ RaiseInSession("input", EOFError)
          /\ UNCHANGED <<entered, user_input, messages, stdout>>
    /\ UNCHANGED <<script, args, pipe, session, user_question,
                   agent_response, ret, handed>>
    /\ UNCHANGED <<trackerVars, hostVars>>

\* agent_response = await agent.ainvoke({"messages": messages})
Main_Invoke ==
    /\ script = "airbnb"
    /\ pc = "ainvoke"
    /\ handed' = messages
    /\ \/ \E r \in AgentResponses :
            /\ agent_response' = r
            /\ pc' = "extract"
            /\ UNCHANGED <<exc, failed>>
       \/ \E e \in AwaitErrors :
            /\ exc' = e
            /\ failed' = Failure("ainvoke", e)
            /\ pc' = "except"
            /\ UNCHANGED agent_response
    /\ UNCHANGED <<script, args, pipe, session, user_input, user_question,
                   ret, stdout, messages, entered>>
    /\ UNCHANGED <<trackerVars, hostVars>>

\* what agent_response["messages"][-1].content raises, if anything
ExtractError(response) ==
    IF "messages" \notin DOMAIN response
    THEN Exc("KeyError", "'messages'")
    ELSE IF response.messages = <<>>
    THEN Exc("IndexError", "list index out of range")
    ELSE IF ~response.messages[Len(response.messages)].has_content
    THEN Exc("AttributeError", "object has no attribute 'content'")
    ELSE NoExc

\* the reply appended to the history
MessagesAfterReply_AppendAssistant(msgs, response) ==
    Append(msgs, [role |-> "assistant",
                  content |-> <<<<response.messages[Len(response.messages)].content, 1>>>>])

\* what the turn does to messages once the reply is in: nothing
MessagesAfterReply(msgs, response) == msgs

\* ai_message = agent_response["messages"][-1].content; print("\nAgent:", ai_message)
Main_Extract ==
    /\ script = "airbnb"
    /\ pc = "extract"
    /\ LET e == ExtractError(agent_response) IN
       IF e.raised
       THEN /\ exc' = e
            /\ failed' = Failure("extract", e)
            /\ pc' = "except"
            /\ UNCHANGED <<stdout, messages>>
       ELSE /\ stdout' = [kind |-> "agent",
                          text |-> agent_response.messages[Len(agent_response.messages)].content]
            /\ messages' = MessagesAfterReply(messages, agent_response)
            /\ pc' = "prompt"
            /\ UNCHANGED <<exc, failed>>
    /\ UNCHANGED <<script, args, pipe, session, user_input, user_question,
                   agent_response, ret, entered, handed>>
    /\ UNCHANGED <<trackerVars, hostVars>>

\* the failed turn's user message taken back
MessagesAfterError_Pop(msgs) == SubSeq(msgs, 1, Len(msgs) - 1)

\* what the except clause does to messages: nothing
MessagesAfterError(msgs) == msgs

\* except Exception as e: print("Error:", e)
Main_Except ==
    /\ script = "airbnb"
    /\ pc = "except"
    /\ stdout' = [kind |-> "error", text |-> exc.message]
    /\ messages' = MessagesAfterError(messages)
    /\ exc' = NoExc
    /\ pc' = "prompt"
    /\ UNCHANGED <<script, args, pipe, session, user_input, user_question,
                   agent_response, ret, entered, handed, failed>>
    /\ UNCHANGED <<trackerVars, hostVars>>

\* stdio_client's __aexit__; an exception in flight then leaves main
Main_StdioExit ==
    /\ script = "airbnb"
    /\ pc = "stdio_exit"
    /\ pipe' = "closed"
    /\ pc' = IF exc.raised THEN "crashed" ELSE "exit"
    /\ UNCHANGED <<script, args, session, exc, user_input, user_question,
                   agent_response, ret, stdout, messages, entered, handed, failed>>
    /\ UNCHANGED <<trackerVars, hostVars>>

\* ClientSession's __aexit__ in main
Main_SessionExit == script = "airbnb" /\ SessionExit

NextAirbnb ==
    \/ Main_StdioEnter
    \/ Main_SessionEnter
    \/ Main_Initialize
    \/ Main_LoadTools
    \/ Main_Prompt
    \/ Main_Invoke
    \/ Main_Extract
    \/ Main_Except
    \/ Main_SessionExit
    \/ Main_StdioExit

(***************************************************************************)
(* Initial states and specifications                                       *)
(***************************************************************************)
AgentVarsAtStart ==
    /\ pipe = "closed"
    /\ session = "closed"
    /\ exc = NoExc
    /\ user_input = <<>>
    /\ user_question = <<>>
    /\ agent_response = NoResponse
    /\ ret = NoReturn
    /\ stdout = Silent
    /\ messages = <<>>
    /\ entered = <<>>
    /\ handed = <<>>
    /\ failed = NoFailure

NoCommandLine == [has_query |-> FALSE, query |-> <<>>, interactive |-> FALSE]

\* no client script runs
InitAgentVars ==
    /\ script = "none"
    /\ args = NoCommandLine
    /\ pc = "exit"
    /\ AgentVarsAtStart

\* python mcp_client.py [--query Q] [--interactive]
InitClient ==
    /\ script = "mcp_client"
    /\ args \in CommandLines
    /\ pc = "main"
    /\ AgentVarsAtStart

\* python main.py
InitAirbnb ==
    /\ script = "airbnb"
    /\ args = NoCommandLine
    /\ pc = "stdio_enter"
    /\ AgentVarsAtStart

InitTracker == InitTrackerVars /\ InitHostVars /\ InitAgentVars
InitHost    == InitTrackerVars /\ InitHostCall /\ InitAgentVars
InitAgent   == InitTrackerVars /\ InitHostVars /\ (InitClient \/ InitAirbnb)
InitMain    == InitTrackerVars /\ InitHostVars /\ InitAirbnb

NextAgent == NextClient \/ NextAirbnb

SpecTracker == InitTracker /\ [][NextTracker]_vars
SpecHost    == InitHost /\ [][NextHost]_vars
SpecAgent   == InitAgent /\ [][NextAgent]_vars
SpecAirbnb  == InitMain /\ [][NextAirbnb]_vars

(***************************************************************************)
(* Properties                                                              *)
(***************************************************************************)

\* the line the i-th observed on_tool_start call should give
ExpectedLine(i) ==
    [ordinal |-> i,
     tool |-> IF "name" \in DOMAIN t_calls[i].serialized
              THEN t_calls[i].serialized.name ELSE "unknown_tool",
     input |-> t_calls[i].input]

\* C1: after N on_tool_start calls, with on_tool_end calls interleaved in any
\* way, get_tool_usage_summary() returns "No tools were used." when N = 0 and
\* otherwise exactly N lines numbered 1..N in call order, line i carrying the
\* name (or "unknown_tool") and the input of the i-th call.
C1_SummaryListsCallsInOrder ==
    t_summary.kind # "none" =>
        IF t_summaryAt = 0
        THEN t_summary.kind = "sentinel" /\ t_summary.text = "No tools were used."
        ELSE /\ t_summary.kind = "listing"
             /\ Len(t_summary.lines) = t_summaryAt
             /\ \A i \in 1..t_summaryAt : t_summary.lines[i] = ExpectedLine(i)

\* a summary of two or more calls, one of them without a name, taken after
\* an on_tool_end
C1_Witness ==
    /\ t_summary.kind = "listing"
    /\ t_summaryAt >= 2
    /\ t_stdout.kind = "output"
    /\ \E i, j \in 1..t_summaryAt :
        /\ i < j
        /\ t_summary.lines[i].tool = "unknown_tool"
        /\ t_summary.lines[j].tool # "unknown_tool"

Ellipsis == Lit(<<".", ".", ".">>)

NotHttp(url) == url = <<>> \/ StrLen(url) < 4 \/ Slice(url, 4) # Http

HostTools == {"extract_documentation", "summarize_webpage", "extract_company_info"}

\* C2: for a URL that is empty or does not start with http, every Host
\* operation returns a result with an `error` key and makes no scrape_url
\* call; the tools test emptiness first, so extract_company_info("") gives
\* "URL cannot be empty" and extract_company_info of any other such URL
\* gives "Invalid URL".
C2_BadUrlRejectedBeforeCall ==
    (h_pc = "returned" /\ NotHttp(h_request.url)) =>
        /\ "error" \in DOMAIN h_result
        /\ h_scrapes = <<>>
        /\ h_raised = NoExc
        /\ (h_request.op \in HostTools /\ h_request.url = <<>>)
               => h_result = [error |-> <<"URL cannot be empty">>]
        /\ (h_request.op = "extract_company_info" /\ h_request.url # <<>>)
               => h_result = [error |-> <<"Invalid URL">>]

\* extract_company_info("htt") has returned {"error": "Invalid URL"}
C2_Witness ==
    /\ h_pc = "returned"
    /\ h_request.op = "extract_company_info"
    /\ h_request.url = Lit(<<"h", "t", "t">>)
    /\ h_outcome.kind = "response"
    /\ h_result = [error |-> <<"Invalid URL">>]

\* the response holds a value under k that is not empty
Filled(k) == k \in DOMAIN h_outcome.response /\ h_outcome.response[k].truthy

\* C3: extract_structured_data with a valid URL issues exactly one scrape_url
\* call, asking for the json and markdown formats; when it answers, the
\* result is the json data if that is not empty, else the raw markdown with a
\* note and no error key, else {error: "No data extracted from the page."}.
C3_ExtractionPriority ==
    (h_pc = "returned" /\ h_request.op = "extract_structured_data"
        /\ ~NotHttp(h_request.url)) =>
        /\ Len(h_scrapes) = 1
        /\ h_scrapes[1].url = h_request.url
        /\ h_scrapes[1].formats = <<"json", "markdown">>
        /\ h_outcome.kind = "response" =>
            IF Filled("json")
            THEN h_result = h_outcome.response["json"]
            ELSE IF Filled("markdown")
            THEN /\ DOMAIN h_result = {"raw_text", "note"}
                 /\ h_result.raw_text = h_outcome.response["markdown"]
            ELSE h_result = [error |-> <<"No data extracted from the page.">>]

\* a response whose json is present but empty: the markdown is returned
C3_Witness ==
    /\ h_pc = "returned"
    /\ h_request.op = "extract_structured_data"
    /\ h_request.schema_type = "anything else"
    /\ h_outcome.kind = "response"
    /\ "json" \in DOMAIN h_outcome.response
    /\ ~Filled("json")
    /\ "raw_text" \in DOMAIN h_result

\* C4: when scrape_url raises inside a Host operation, the operation returns
\* the error variant carrying the exception's message, and no exception
\* leaves the operation.
C4_ScrapeErrorsBecomeErrorResults ==
    (h_pc = "returned" /\ h_outcome.kind = "raise" /\ h_scrapes # <<>>) =>
        /\ h_raised = NoExc
        /\ DOMAIN h_result = {"error"}
        /\ h_result.error[Len(h_result.error)] = h_outcome.message

\* summarize_webpage of a valid URL whose scrape raised "timeout"
C4_Witness ==
    /\ h_pc = "returned"
    /\ h_request.op = "summarize_webpage"
    /\ h_outcome.kind = "raise"
    /\ h_scrapes # <<>>
    /\ h_result = [error |-> <<"Error fetching content: ", "timeout">>]

\* "exit", "quit", "q", "bye"
ExitKeywords == {Exit, Quit, Q, Bye}

\* C5: in both REPLs, once one of "exit", "quit", "q", "bye" is typed at the
\* prompt the loop has ended with its goodbye, and the line was not passed on
\* as a query.
C5_ExitKeywordEndsRepl ==
    /\ (script = "airbnb" /\ entered # <<>> /\ entered[Len(entered)] \in ExitKeywords)
           => (pc \in {"session_exit", "stdio_exit", "exit"} /\ stdout.kind = "goodbye")
    /\ (script = "mcp_client" /\ user_input \in ExitKeywords)
           => (pc = "exit" /\ stdout.kind = "goodbye")

InteractiveRun == ~(args.has_query /\ args.query # <<>>)

\* C6: an exception raised in a round (mcp_client: entering the two contexts,
\* initialize, tool loading, the agent call, the formatting; airbnb: the agent
\* call and the reading of the last message) never ends the process: run_app
\* returns {"error": message} and its REPL prompts again, the Airbnb loop
\* prints the error and prompts again.
C6_RoundFailuresAreCaught ==
    [][ /\ (script = "mcp_client" /\ failed'.raised /\ failed'.at # "input")
               => /\ pc' \in {"session_exit", "stdio_exit", "except", "return",
                              "prompt", "exit"}
                  /\ pc' \in {"return", "prompt", "exit"}
                        => ret' = [error |-> failed'.message]
                  /\ pc' = "exit" => ~InteractiveRun
        /\ (script = "mcp_client" /\ pc = "except")
               => pc' = "return"
        /\ (script = "mcp_client" /\ pc = "return" /\ InteractiveRun)
               => pc' = "prompt"
        /\ (script = "airbnb" /\ failed'.raised /\ failed'.at \in {"ainvoke", "extract"})
               => pc' \in {"except", "prompt"}
        /\ (script = "airbnb" /\ pc = "except")
               => (pc' = "prompt" /\ stdout' = [kind |-> "error", text |-> failed.message])
      ]_vars

\* the interactive client is back at its prompt after the formatting raised
C6_Witness ==
    /\ script = "mcp_client"
    /\ pc = "prompt"
    /\ failed.raised
    /\ failed.at = "format"
    /\ ret = [error |-> "list index out of range"]

\* C7: outside the two `async with` blocks neither the pipe nor the session
\* is open, whichever way the blocks were left; the session is never open
\* without the pipe, and the pipe's exit runs after the session's.
C7_PipeReleasedOnEveryPath ==
    /\ (script = "mcp_client"
            /\ pc \in {"main", "prompt", "stdio_enter", "except", "return", "exit", "crashed"})
           => (pipe = "closed" /\ session = "closed")
    /\ (script = "airbnb" /\ pc \in {"stdio_enter", "exit", "crashed"})
           => (pipe = "closed" /\ session = "closed")
    /\ session = "open" => pipe = "open"
    /\ pc = "stdio_exit" => session = "closed"

\* run_app has returned an error after the agent call raised, with the pipe
\* it had opened closed again
C7_Witness ==
    /\ script = "mcp_client"
    /\ pc = "return"
    /\ failed.raised
    /\ failed.at = "ainvoke"
    /\ handed # <<>>
    /\ pipe = "closed"
    /\ session = "closed"

\* C8: the messages held before any step of the Airbnb REPL are a prefix of
\* the messages held after it.
C8_MessagesAppendOnly == [][IsPrefix(messages, messages')]_vars

\* back at the prompt after a failed turn, with two user messages kept
C8_Witness ==
    /\ script = "airbnb"
    /\ pc = "prompt"
    /\ stdout.kind = "error"
    /\ Len(messages) >= 3

\* the history the claim expects after the inputs typed so far
ExpectedHistory ==
    <<SystemMessage>> \o
    [i \in 1..Len(entered) |->
        [role |-> "user", content |-> Slice(Lower(entered[i]), 175000)]]

\* C10: the messages handed to the agent on the k-th turn are the system
\* message followed by the k lines typed so far, each lowercased and cut to
\* 175000 characters, in order; no reply is ever among them and the message of
\* a failed turn stays.
C10_HistoryIsSystemPlusInputs ==
    /\ (script = "airbnb" /\ pc \in {"extract", "except"})
           => handed = ExpectedHistory
    /\ (script = "airbnb" /\ pc \in {"ainvoke", "extract", "except"})
           => messages = ExpectedHistory

\* a second or later turn, after a turn that failed and a line that was cut
C10_Witness ==
    /\ script = "airbnb"
    /\ pc = "extract"
    /\ Len(handed) >= 3
    /\ stdout.kind = "error"
    /\ \E i \in 1..Len(entered) :
        /\ StrLen(entered[i]) > 175000
        /\ StrLen(handed[i + 1].content) = 175000

====
